---- MODULE Spec2Model ----
(***************************************************************************)
(* Lazy spatial transforms of monai/transforms/spatial/functional.py:      *)
(* the builders (identity, spacing, flip, resize, rotate, zoom, rotate90,  *)
(* translate), the shape calculator transform_shape and the dispatcher     *)
(* lazily_apply_op, over an image handle with a pending-operation log.     *)
(*                                                                         *)
(* Numbers are exact rationals <<n, d>> (d > 0, lowest terms); matrices    *)
(* are sequences of rows.  cos and sin of 45 degrees are the rational      *)
(* approximation 12/17.                                                    *)
(***************************************************************************)
EXTENDS Integers, Sequences, FiniteSets, TLC

\* ------------------------------------------------------------------------
\* Bounds of the exploration
\* ------------------------------------------------------------------------

\* Longest pending-operation log a deferred call may build.
MaxOps == 2

\* ------------------------------------------------------------------------
\* Exact rational arithmetic (the float arithmetic of the source)
\* ------------------------------------------------------------------------

Abs(x) == IF x < 0 THEN -x ELSE x

RECURSIVE GCD(_, _)
GCD(a, b) == IF b = 0 THEN a ELSE GCD(b, a % b)

Rat(n, d) ==
    LET g == GCD(Abs(n), Abs(d))
        s == IF d < 0 THEN -1 ELSE 1
    IN  <<(s * n) \div g, (s * d) \div g>>

RInt(n) == <<n, 1>>
RZero == <<0, 1>>
ROne == <<1, 1>>
RNeg(a) == <<-a[1], a[2]>>
\* the sum over the least common denominator, the product cancelled crosswise:
\* intermediate values stay as small as the result
RAdd(a, b) ==
    LET g == GCD(a[2], b[2])
    IN  Rat(a[1] * (b[2] \div g) + b[1] * (a[2] \div g), (a[2] \div g) * b[2])
RSub(a, b) == RAdd(a, RNeg(b))
RMul(a, b) ==
    LET g1 == GCD(Abs(a[1]), b[2])
        g2 == GCD(Abs(b[1]), a[2])
    IN  <<(a[1] \div g1) * (b[1] \div g2), (a[2] \div g2) * (b[2] \div g1)>>
RDiv(a, b) == RMul(a, Rat(b[2], b[1]))
RLe(a, b) == a[1] * b[2] <= b[1] * a[2]

\* math.ceil / np.ceil
RCeil(a) == -((-a[1]) \div a[2])

\* int(round(x)) of python 3: to the nearest integer, a tie to the even one
RRound(a) ==
    LET f == a[1] \div a[2]
        r == a[1] % a[2]
    IN  IF 2 * r < a[2] THEN f
        ELSE IF 2 * r > a[2] THEN f + 1
        ELSE IF f % 2 = 0 THEN f ELSE f + 1

RMax(S) == CHOOSE x \in S : \A y \in S : RLe(y, x)
RMin(S) == CHOOSE x \in S : \A y \in S : RLe(x, y)

\* max(...) of python over a sequence of integers
MaxOf(s) == CHOOSE x \in {s[i] : i \in 1..Len(s)} : \A i \in 1..Len(s) : s[i] <= x

\* the sequence <<F[1], ..., F[n]>>, n <= 6 (at most 5 spatial dimensions)
Tab(n, F) ==
    CASE n = 0 -> <<>>
      [] n = 1 -> <<F[1]>>
      [] n = 2 -> <<F[1], F[2]>>
      [] n = 3 -> <<F[1], F[2], F[3]>>
      [] n = 4 -> <<F[1], F[2], F[3], F[4]>>
      [] n = 5 -> <<F[1], F[2], F[3], F[4], F[5]>>
      [] n = 6 -> <<F[1], F[2], F[3], F[4], F[5], F[6]>>

\* F[1] + ... + F[n], n <= 6
RSum(n, F) ==
    CASE n = 0 -> RZero
      [] n = 1 -> F[1]
      [] n = 2 -> RAdd(F[1], F[2])
      [] n = 3 -> RAdd(RAdd(F[1], F[2]), F[3])
      [] n = 4 -> RAdd(RAdd(RAdd(F[1], F[2]), F[3]), F[4])
      [] n = 5 -> RAdd(RAdd(RAdd(RAdd(F[1], F[2]), F[3]), F[4]), F[5])
      [] n = 6 -> RAdd(RAdd(RAdd(RAdd(RAdd(F[1], F[2]), F[3]), F[4]), F[5]), F[6])

\* ------------------------------------------------------------------------
\* Matrices and vectors
\* ------------------------------------------------------------------------

\* matrix @ e
MatVec(M, v) ==
    Tab(Len(M), [i \in 1..(Len(M)) |-> RSum(Len(v), [j \in 1..(Len(v)) |-> RMul(M[i][j], v[j])])])

\* A @ B
MatMul(A, B) ==
    Tab(Len(A), [i \in 1..(Len(A)) |->
        Tab(Len(B[1]), [j \in 1..(Len(B[1])) |-> RSum(Len(B), [k \in 1..(Len(B)) |-> RMul(A[i][k], B[k][j])])])])

Eye(n) == Tab(n, [i \in 1..(n) |-> Tab(n, [j \in 1..(n) |-> IF i = j THEN ROne ELSE RZero])])

\* diag(factors..., 1)
Diag(f) ==
    Tab(Len(f) + 1, [i \in 1..(Len(f) + 1) |->
        Tab(Len(f) + 1, [j \in 1..(Len(f) + 1) |->
            IF i # j THEN RZero ELSE IF i <= Len(f) THEN f[i] ELSE ROne])])

\* ------------------------------------------------------------------------
\* Helpers of monai.utils
\* ------------------------------------------------------------------------

\* ensure_tuple_rep(value, n) of a scalar: n copies of it
ensure_tuple_rep(value, n) == Tab(n, [i \in 1..(n) |-> value])

\* fall_back_tuple(user, default): each entry of user that is not positive is
\* replaced by the entry of default; a single entry is repeated first
fall_back_tuple(user, default) ==
    LET u == IF Len(user) = 1 THEN ensure_tuple_rep(user[1], Len(default)) ELSE user
    IN  Tab(Len(default), [i \in 1..(Len(default)) |-> IF u[i] > 0 THEN u[i] ELSE default[i]])

\* ------------------------------------------------------------------------
\* Extent / shape calculator (monai.transforms.lazy.functional)
\* ------------------------------------------------------------------------

\* the 2^K corners of [0, d1] x ... x [0, dK], homogeneous (trailing 1)
extents_from_shape(shape) ==
    LET K == Len(shape) - 1
    IN  {Tab(K + 1, [i \in 1..(K + 1) |->
            IF i = K + 1 THEN ROne
            ELSE IF i \in S THEN RInt(shape[i + 1]) ELSE RZero]) : S \in SUBSET (1..K)}

\* [C, ceil(max_i - min_i) ...] over the transformed extents
shape_from_extents(src_shape, extents) ==
    Tab(Len(src_shape), [i \in 1..(Len(src_shape)) |->
        IF i = 1 THEN src_shape[1]
        ELSE RCeil(RSub(RMax({e[i - 1] : e \in extents}),
                        RMin({e[i - 1] : e \in extents})))])

\* a 2d or 3d homogeneous matrix: 3 x 3 or 4 x 4
is_matrix_shaped(matrix) ==
    /\ Len(matrix) \in {3, 4}
    /\ \A i \in 1..Len(matrix) : Len(matrix[i]) = Len(matrix)

\* transform_shape, had it taken the corners at the centres of the outermost
\* voxels, the box [0, d1 - 1] x ... x [0, dK - 1]
transform_shape_centres(input_shape, matrix) ==
    IF ~is_matrix_shaped(matrix) \/ Len(matrix) # Len(input_shape) THEN <<>>
    ELSE LET inner == Tab(Len(input_shape), [i \in 1..(Len(input_shape)) |->
                          IF i = 1 THEN input_shape[1] ELSE input_shape[i] - 1])
             im_extents == {MatVec(matrix, e) : e \in extents_from_shape(inner)}
         IN  shape_from_extents(input_shape, im_extents)

\* The shape after `matrix`; <<>> stands for the ValueError raised when the
\* matrix is not 2d/3d homogeneous (or does not fit the extents).
transform_shape(input_shape, matrix) ==
    IF ~is_matrix_shaped(matrix) \/ Len(matrix) # Len(input_shape) THEN <<>>
    ELSE LET im_extents == {MatVec(matrix, e) : e \in extents_from_shape(input_shape)}
         IN  shape_from_extents(input_shape, im_extents)

\* ------------------------------------------------------------------------
\* Matrix factories (monai.transforms.utils compatible_*): the matrix has the
\* spatial dimensionality of the image it is made for
\* ------------------------------------------------------------------------

NDim(image) == Len(image.shape) - 1

\* cos and sin of an angle given in degrees (45: the approximation 12/17)
Cos(a) == CASE a = 0 -> ROne [] a = 45 -> <<12, 17>> [] a = 90 -> RZero
            [] a = 180 -> <<-1, 1>> [] a = 270 -> RZero
Sin(a) == CASE a = 0 -> RZero [] a = 45 -> <<12, 17>> [] a = 90 -> ROne
            [] a = 180 -> RZero [] a = 270 -> <<-1, 1>>

\* the rotation by `a` in the plane of the (1-based) axes p, q of n dimensions
PlaneRotation(n, p, q, a) ==
    Tab(n + 1, [i \in 1..(n + 1) |->
        Tab(n + 1, [j \in 1..(n + 1) |->
            IF i = p /\ j = p THEN Cos(a)
            ELSE IF i = p /\ j = q THEN RNeg(Sin(a))
            ELSE IF i = q /\ j = p THEN Sin(a)
            ELSE IF i = q /\ j = q THEN Cos(a)
            ELSE IF i = j THEN ROne ELSE RZero])])

compatible_identity(image) == Eye(NDim(image) + 1)

compatible_scale(image, factors) ==
    Diag(Tab(NDim(image), [i \in 1..(NDim(image)) |-> IF i <= Len(factors) THEN factors[i] ELSE ROne]))

\* spatial_axis: a sequence of 0-based axes
compatible_flip(image, spatial_axis) ==
    Diag(Tab(NDim(image), [i \in 1..(NDim(image)) |->
            IF \E k \in 1..Len(spatial_axis) : spatial_axis[k] = i - 1
            THEN <<-1, 1>> ELSE ROne]))

\* 2d: one angle; 3d: the rotations about the three axes, composed in order
compatible_rotate(image, angle) ==
    IF NDim(image) = 2 THEN PlaneRotation(2, 1, 2, angle[1])
    ELSE MatMul(MatMul(PlaneRotation(3, 2, 3, angle[1]),
                       PlaneRotation(3, 3, 1, angle[2])),
                PlaneRotation(3, 1, 2, angle[3]))

compatible_rotate_90(image, spatial_axes, k) ==
    PlaneRotation(NDim(image), spatial_axes[1] + 1, spatial_axes[2] + 1, (k % 4) * 90)

compatible_translate(image, translation) ==
    Tab(NDim(image) + 1, [i \in 1..(NDim(image) + 1) |->
        Tab(NDim(image) + 1, [j \in 1..(NDim(image) + 1) |->
            IF i = j THEN ROne
            ELSE IF j = NDim(image) + 1 /\ i <= Len(translation)
                 THEN RInt(translation[i])
            ELSE RZero])])

\* the transform rescaled by s / (s + 1) per axis of the output size
apply_align_corners(matrix, spatial_size, image) ==
    MatMul(compatible_scale(image, Tab(Len(spatial_size), [i \in 1..(Len(spatial_size)) |->
                                        Rat(spatial_size[i], spatial_size[i] + 1)])),
           matrix)

\* ------------------------------------------------------------------------
\* State
\* ------------------------------------------------------------------------

VARIABLES
    img,      \* the image handle: [tracked, shape, pending]
    ret,      \* what the last call returned: [kind, same, leftover]
    applied,  \* what the last call resampled: [done, matrix, shape, count]
    call,     \* the last call: its arguments, the handle before it, its record
    built     \* the records built by the calls on this image, in call order

vars == <<img, ret, applied, call, built>>

NoShape == <<>>
NoOp == [matrix |-> <<>>, shape_override |-> <<>>, op |-> "none"]
NoApply == [done |-> FALSE, matrix |-> <<>>, shape |-> <<>>, count |-> 0]
NoArgs ==
    [keep_size |-> FALSE, align_corners |-> FALSE, size_mode |-> "", is_int |-> FALSE,
     spatial_size |-> <<>>, factor |-> RZero, angle |-> 0,
     translation |-> <<>>, spatial_axis |-> [is_none |-> FALSE, axes |-> <<>>]]

\* MetaMatrix(transform, metadata): the transform, metadata["shape_override"]
\* and the operation the other metadata keys belong to
MetaMatrix(matrix, shape_override, op) ==
    [matrix |-> matrix, shape_override |-> shape_override, op |-> op]

\* ------------------------------------------------------------------------
\* Image handle interface (MetaTensor) and the resampling step
\* ------------------------------------------------------------------------

\* convert_to_tensor keeps the handle: tracking is a property of the value
convert_to_tensor(image) == image

push_pending_operation(tensor, op) ==
    [tensor EXCEPT !.pending = Append(@, op)]

\* the shape predicted by the queued operations: the last one's shape_override
peek_pending_shape(tensor) == tensor.pending[Len(tensor.pending)].shape_override

\* the transforms of ops[1..n] multiplied in log order
RECURSIVE Compose(_, _)
Compose(ops, n) ==
    IF n = 1 THEN ops[1].matrix ELSE MatMul(Compose(ops, n - 1), ops[n].matrix)

\* apply_transforms: compose the operations, resample once, drain the log
apply_transforms(tensor, ops) ==
    [img |-> [tracked |-> tensor.tracked,
              shape |-> ops[Len(ops)].shape_override,
              pending |-> <<>>],
     applied |-> [done |-> TRUE, matrix |-> Compose(ops, Len(ops)),
                  shape |-> ops[Len(ops)].shape_override, count |-> Len(ops)]]

\* ------------------------------------------------------------------------
\* The dispatcher
\* ------------------------------------------------------------------------

\* the dispatcher, had it queued the operation only when it applies at once
lazily_apply_op_no_push(tensor, op, lazy_evaluation) ==
    IF tensor.tracked
    THEN LET pushed == push_pending_operation(tensor, op)
         IN  IF lazy_evaluation = "False"
             THEN LET result == apply_transforms(pushed, pushed.pending)
                  IN  [img |-> result.img, applied |-> result.applied,
                       ret |-> [kind |-> "tensor", same |-> FALSE, leftover |-> NoOp]]
             ELSE [img |-> tensor, applied |-> NoApply,
                   ret |-> [kind |-> "tensor", same |-> TRUE, leftover |-> NoOp]]
    ELSE IF lazy_evaluation = "False"
         THEN LET result == apply_transforms(tensor, <<op>>)
              IN  [img |-> result.img, applied |-> result.applied,
                   ret |-> [kind |-> "tuple", same |-> FALSE, leftover |-> NoOp]]
         ELSE [img |-> tensor, applied |-> NoApply,
               ret |-> [kind |-> "tuple", same |-> TRUE, leftover |-> op]]

\* the dispatcher, had it applied the new operation alone to a tracked image
lazily_apply_op_only_new(tensor, op, lazy_evaluation) ==
    IF tensor.tracked
    THEN LET pushed == push_pending_operation(tensor, op)
         IN  IF lazy_evaluation = "False"
             THEN LET result == apply_transforms(pushed, <<op>>)
                  IN  [img |-> result.img, applied |-> result.applied,
                       ret |-> [kind |-> "tensor", same |-> FALSE, leftover |-> NoOp]]
             ELSE [img |-> pushed, applied |-> NoApply,
                   ret |-> [kind |-> "tensor", same |-> TRUE, leftover |-> NoOp]]
    ELSE IF lazy_evaluation = "False"
         THEN LET result == apply_transforms(tensor, <<op>>)
              IN  [img |-> result.img, applied |-> result.applied,
                   ret |-> [kind |-> "tuple", same |-> FALSE, leftover |-> NoOp]]
         ELSE [img |-> tensor, applied |-> NoApply,
               ret |-> [kind |-> "tuple", same |-> TRUE, leftover |-> op]]

\* the dispatcher, had it dropped the unapplied record of a plain image
lazily_apply_op_drop_leftover(tensor, op, lazy_evaluation) ==
    IF tensor.tracked
    THEN LET pushed == push_pending_operation(tensor, op)
         IN  IF lazy_evaluation = "False"
             THEN LET result == apply_transforms(pushed, pushed.pending)
                  IN  [img |-> result.img, applied |-> result.applied,
                       ret |-> [kind |-> "tensor", same |-> FALSE, leftover |-> NoOp]]
             ELSE [img |-> pushed, applied |-> NoApply,
                   ret |-> [kind |-> "tensor", same |-> TRUE, leftover |-> NoOp]]
    ELSE IF lazy_evaluation = "False"
         THEN LET result == apply_transforms(tensor, <<op>>)
              IN  [img |-> result.img, applied |-> result.applied,
                   ret |-> [kind |-> "tuple", same |-> FALSE, leftover |-> NoOp]]
         ELSE [img |-> tensor, applied |-> NoApply,
               ret |-> [kind |-> "tuple", same |-> TRUE, leftover |-> NoOp]]

lazily_apply_op(tensor, op, lazy_evaluation) ==
    IF tensor.tracked
    THEN LET pushed == push_pending_operation(tensor, op)
         IN  IF lazy_evaluation = "False"
             THEN LET result == apply_transforms(pushed, pushed.pending)
                  IN  [img |-> result.img, applied |-> result.applied,
                       ret |-> [kind |-> "tensor", same |-> FALSE, leftover |-> NoOp]]
             ELSE [img |-> pushed, applied |-> NoApply,
                   ret |-> [kind |-> "tensor", same |-> TRUE, leftover |-> NoOp]]
    ELSE IF lazy_evaluation = "False"
         THEN LET result == apply_transforms(tensor, <<op>>)
              IN  [img |-> result.img, applied |-> result.applied,
                   ret |-> [kind |-> "tuple", same |-> FALSE, leftover |-> NoOp]]
         ELSE [img |-> tensor, applied |-> NoApply,
               ret |-> [kind |-> "tuple", same |-> TRUE, leftover |-> op]]

\* ------------------------------------------------------------------------
\* The builders.  Each yields [raised, input_shape, op, img, ret, applied]:
\* whether it raised, the input shape it resolved, the record it built and
\* what the dispatcher made of it.
\* ------------------------------------------------------------------------

Raise(image, input_shape) ==
    [raised |-> TRUE, input_shape |-> input_shape, op |-> NoOp, img |-> image,
     applied |-> NoApply, ret |-> [kind |-> "raise", same |-> FALSE, leftover |-> NoOp]]

Dispatch(img_, input_shape, op, lazy_evaluation) ==
    LET d == lazily_apply_op(img_, op, lazy_evaluation)
    IN  [raised |-> FALSE, input_shape |-> input_shape, op |-> op, img |-> d.img,
         applied |-> d.applied, ret |-> d.ret]

\* the resolution, had it overlooked the pending operations
ResolveInputShape_concrete(image, img_, shape_override) ==
    IF shape_override # NoShape THEN shape_override ELSE img_.shape

\* "if shape_override is set, it always wins", then the pending shape, then
\* the shape of the tensor
ResolveInputShape(image, img_, shape_override) ==
    IF shape_override # NoShape THEN shape_override
    ELSE IF image.tracked /\ Len(image.pending) > 0 THEN peek_pending_shape(image)
    ELSE img_.shape

Tail1(shape) == SubSeq(shape, 2, Len(shape))

identity(image, shape_override, lazy_evaluation) ==
    LET img_ == convert_to_tensor(image)
        input_shape == ResolveInputShape(image, img_, shape_override)
        transform == compatible_identity(img_)
    IN  Dispatch(img_, input_shape, MetaMatrix(transform, input_shape, "identity"),
                 lazy_evaluation)

\* pixdim, src_pixdim: scalars
spacing(image, pixdim, src_pixdim, diagonal, shape_override, lazy_evaluation) ==
    LET img_ == convert_to_tensor(image)
        input_shape == ResolveInputShape(image, img_, shape_override)
        input_ndim == Len(input_shape) - 1
        pixdim_ == ensure_tuple_rep(pixdim, input_ndim)
        src_pixdim_ == ensure_tuple_rep(src_pixdim, input_ndim)
        zoom_factors == Tab(input_ndim, [i \in 1..(input_ndim) |-> RDiv(src_pixdim_[i], pixdim_[i])])
        transform == compatible_scale(img_, zoom_factors)
        output_shape == transform_shape(input_shape, transform)
    IN  IF diagonal THEN Raise(image, input_shape)
        ELSE IF output_shape = <<>> THEN Raise(image, input_shape)
        ELSE Dispatch(img_, input_shape, MetaMatrix(transform, output_shape, "spacing"),
                      lazy_evaluation)

\* flip, had its transform also doubled the flipped axes
flip_stretch(image, spatial_axis, shape_override, lazy_evaluation) ==
    LET img_ == convert_to_tensor(image)
        input_shape == ResolveInputShape(img_, img_, shape_override)
        spatial_axis_ == IF spatial_axis.is_none
                         THEN Tab(Len(Tail1(input_shape)), [i \in 1..(Len(Tail1(input_shape))) |-> i - 1])
                         ELSE spatial_axis.axes
        flipped == compatible_flip(img_, spatial_axis_)
        stretched == Tab(Len(flipped), [i \in 1..(Len(flipped)) |->
                         Tab(Len(flipped), [j \in 1..(Len(flipped)) |->
                             RMul(flipped[i][j], IF flipped[i][j] = ROne THEN ROne ELSE RInt(2))])])
        im_extents == {MatVec(stretched, e) : e \in extents_from_shape(input_shape)}
        output_shape == shape_from_extents(input_shape, im_extents)
    IN  Dispatch(img_, input_shape, MetaMatrix(stretched, output_shape, "flip"),
                 lazy_evaluation)

\* spatial_axis: [is_none, axes]
flip(image, spatial_axis, shape_override, lazy_evaluation) ==
    LET img_ == convert_to_tensor(image)
        input_shape == ResolveInputShape(img_, img_, shape_override)
        spatial_axis_ == IF spatial_axis.is_none
                         THEN Tab(Len(Tail1(input_shape)), [i \in 1..(Len(Tail1(input_shape))) |-> i - 1])
                         ELSE spatial_axis.axes
        transform == compatible_flip(img_, spatial_axis_)
        im_extents == {MatVec(transform, e) : e \in extents_from_shape(input_shape)}
        output_shape == shape_from_extents(input_shape, im_extents)
    IN  Dispatch(img_, input_shape, MetaMatrix(transform, output_shape, "flip"),
                 lazy_evaluation)

\* resize, had it stored the factors as current size / target size
resize_inverse_factors(image, spatial_size, size_mode, shape_override, lazy_evaluation) ==
    LET img_ == convert_to_tensor(image)
        input_shape == ResolveInputShape(image, img_, shape_override)
        input_ndim == Len(input_shape) - 1
        output_ndim == Len(spatial_size.val)
        img_size == Tail1(input_shape)
        scale == Rat(spatial_size.val[1], MaxOf(img_size))
        spatial_size_ ==
            IF size_mode = "all" THEN fall_back_tuple(spatial_size.val, img_size)
            ELSE Tab(input_ndim, [i \in 1..(input_ndim) |-> RRound(RMul(RInt(img_size[i]), scale))])
        zoom_factors == Tab(input_ndim, [i \in 1..(input_ndim) |-> Rat(img_size[i], spatial_size_[i])])
        transform == compatible_scale(img_, zoom_factors)
        output_shape == transform_shape(input_shape, transform)
    IN  IF size_mode = "all" /\ output_ndim < input_ndim THEN Raise(image, input_shape)
        ELSE IF size_mode # "all" /\ ~spatial_size.is_int THEN Raise(image, input_shape)
        ELSE IF output_shape = <<>> THEN Raise(image, input_shape)
        ELSE Dispatch(img_, input_shape, MetaMatrix(transform, output_shape, "resize"),
                      lazy_evaluation)

\* resize, had it scaled the longest mode by the shortest extent
resize_shortest(image, spatial_size, size_mode, shape_override, lazy_evaluation) ==
    LET img_ == convert_to_tensor(image)
        input_shape == ResolveInputShape(image, img_, shape_override)
        input_ndim == Len(input_shape) - 1
        output_ndim == Len(spatial_size.val)
        img_size == Tail1(input_shape)
        scale == Rat(spatial_size.val[1], -MaxOf(Tab(input_ndim, [i \in 1..(input_ndim) |-> -img_size[i]])))
        spatial_size_ ==
            IF size_mode = "all" THEN fall_back_tuple(spatial_size.val, img_size)
            ELSE Tab(input_ndim, [i \in 1..(input_ndim) |-> RRound(RMul(RInt(img_size[i]), scale))])
        zoom_factors == Tab(input_ndim, [i \in 1..(input_ndim) |-> Rat(spatial_size_[i], img_size[i])])
        transform == compatible_scale(img_, zoom_factors)
        output_shape == transform_shape(input_shape, transform)
    IN  IF size_mode = "all" /\ output_ndim < input_ndim THEN Raise(image, input_shape)
        ELSE IF size_mode # "all" /\ ~spatial_size.is_int THEN Raise(image, input_shape)
        ELSE IF output_shape = <<>> THEN Raise(image, input_shape)
        ELSE Dispatch(img_, input_shape, MetaMatrix(transform, output_shape, "resize"),
                      lazy_evaluation)

\* resize, had it worked on the shape of the tensor whatever is pending
resize_ignores_pending(image, spatial_size, size_mode, shape_override, lazy_evaluation) ==
    LET img_ == convert_to_tensor(image)
        input_shape == IF shape_override # NoShape THEN shape_override ELSE img_.shape
        input_ndim == Len(input_shape) - 1
        output_ndim == Len(spatial_size.val)
        img_size == Tail1(input_shape)
        scale == Rat(spatial_size.val[1], MaxOf(img_size))
        spatial_size_ ==
            IF size_mode = "all" THEN fall_back_tuple(spatial_size.val, img_size)
            ELSE Tab(input_ndim, [i \in 1..(input_ndim) |-> RRound(RMul(RInt(img_size[i]), scale))])
        zoom_factors == Tab(input_ndim, [i \in 1..(input_ndim) |-> Rat(spatial_size_[i], img_size[i])])
        transform == compatible_scale(img_, zoom_factors)
        output_shape == transform_shape(input_shape, transform)
    IN  IF size_mode = "all" /\ output_ndim < input_ndim THEN Raise(image, input_shape)
        ELSE IF size_mode # "all" /\ ~spatial_size.is_int THEN Raise(image, input_shape)
        ELSE IF output_shape = <<>> THEN Raise(image, input_shape)
        ELSE Dispatch(img_, input_shape, MetaMatrix(transform, output_shape, "resize"),
                      lazy_evaluation)

\* spatial_size: [is_int, val] with val the sequence of sizes (an int: one entry)
resize(image, spatial_size, size_mode, shape_override, lazy_evaluation) ==
    LET img_ == convert_to_tensor(image)
        input_shape == ResolveInputShape(image, img_, shape_override)
        input_ndim == Len(input_shape) - 1
        output_ndim == Len(spatial_size.val)
        img_size == Tail1(input_shape)
        scale == Rat(spatial_size.val[1], MaxOf(img_size))
        spatial_size_ ==
            IF size_mode = "all" THEN fall_back_tuple(spatial_size.val, img_size)
            ELSE Tab(input_ndim, [i \in 1..(input_ndim) |-> RRound(RMul(RInt(img_size[i]), scale))])
        zoom_factors == Tab(input_ndim, [i \in 1..(input_ndim) |-> Rat(spatial_size_[i], img_size[i])])
        transform == compatible_scale(img_, zoom_factors)
        output_shape == transform_shape(input_shape, transform)
    IN  IF size_mode = "all" /\ output_ndim < input_ndim THEN Raise(image, input_shape)
        ELSE IF size_mode # "all" /\ ~spatial_size.is_int THEN Raise(image, input_shape)
        ELSE IF output_shape = <<>> THEN Raise(image, input_shape)
        ELSE Dispatch(img_, input_shape, MetaMatrix(transform, output_shape, "resize"),
                      lazy_evaluation)

\* rotate, had it checked the dimensionality after handing the record over
rotate_late_check(image, angle, keep_size, align_corners, shape_override, lazy_evaluation) ==
    LET img_ == convert_to_tensor(image)
        input_shape == ResolveInputShape(image, img_, shape_override)
        input_ndim == Len(input_shape) - 1
        d == Dispatch(img_, input_shape,
                      MetaMatrix(compatible_identity(img_), input_shape, "rotate"),
                      lazy_evaluation)
    IN  IF input_ndim \notin {2, 3} THEN [Raise(image, input_shape) EXCEPT !.img = d.img]
        ELSE d

\* angle: a scalar, in degrees
rotate(image, angle, keep_size, align_corners, shape_override, lazy_evaluation) ==
    LET img_ == convert_to_tensor(image)
        input_shape == ResolveInputShape(image, img_, shape_override)
        input_ndim == Len(input_shape) - 1
        angle_ == ensure_tuple_rep(angle, IF input_ndim = 2 THEN 1 ELSE 3)
        rotate_tx == compatible_rotate(image, angle_)
        output_shape == IF keep_size = FALSE THEN input_shape
                        ELSE transform_shape(input_shape, rotate_tx)
        transform == IF align_corners = TRUE
                     THEN apply_align_corners(rotate_tx, Tail1(output_shape), img_)
                     ELSE rotate_tx
    IN  IF input_ndim \notin {2, 3} THEN Raise(image, input_shape)
        ELSE IF output_shape = <<>> THEN Raise(image, input_shape)
        ELSE Dispatch(img_, input_shape, MetaMatrix(transform, output_shape, "rotate"),
                      lazy_evaluation)

\* factor: a scalar
zoom(image, factor, align_corners, keep_size, shape_override, lazy_evaluation) ==
    LET img_ == convert_to_tensor(image)
        input_shape == ResolveInputShape(image, img_, shape_override)
        input_ndim == Len(input_shape) - 1
        zoom_factors == Tab(input_ndim, [i \in 1..(input_ndim) |->
                            RDiv(ROne, ensure_tuple_rep(factor, input_ndim)[i])])
        transform == compatible_scale(img_, zoom_factors)
        output_shape0 == IF keep_size = FALSE THEN input_shape
                         ELSE transform_shape(input_shape, transform)
        transform_ == IF align_corners = TRUE
                      THEN apply_align_corners(transform, Tail1(output_shape0), img_)
                      ELSE transform
        output_shape == IF align_corners = TRUE
                        THEN transform_shape(output_shape0, transform)
                        ELSE output_shape0
    IN  IF output_shape0 = <<>> THEN Raise(image, input_shape)
        ELSE IF output_shape = <<>> THEN Raise(image, input_shape)
        ELSE Dispatch(img_, input_shape, MetaMatrix(transform_, output_shape, "zoom"),
                      lazy_evaluation)

\* rotate90, had it exchanged the extents of the two axes for an odd k
rotate90_swapped(image, k, spatial_axes, shape_override, lazy_evaluation) ==
    IF Len(spatial_axes) # 2 THEN Raise(image, NoShape)
    ELSE LET img_ == convert_to_tensor(image)
             input_shape == ResolveInputShape(image, img_, shape_override)
             transform == compatible_rotate_90(img_, spatial_axes, k)
             p == spatial_axes[1] + 2
             q == spatial_axes[2] + 2
             output_shape ==
                 IF k % 2 = 0 THEN input_shape
                 ELSE [input_shape EXCEPT ![p] = input_shape[q], ![q] = input_shape[p]]
         IN  Dispatch(img_, input_shape, MetaMatrix(transform, output_shape, "rotate90"),
                      lazy_evaluation)

rotate90(image, k, spatial_axes, shape_override, lazy_evaluation) ==
    IF Len(spatial_axes) # 2 THEN Raise(image, NoShape)
    ELSE LET img_ == convert_to_tensor(image)
             input_shape == ResolveInputShape(image, img_, shape_override)
             transform == compatible_rotate_90(img_, spatial_axes, k)
         IN  Dispatch(img_, input_shape, MetaMatrix(transform, input_shape, "rotate90"),
                      lazy_evaluation)

\* translate, had it rejected only a translation longer than the image has
\* spatial dimensions
translate_too_long_only(image, translation, shape_override, lazy_evaluation) ==
    LET img_ == convert_to_tensor(image)
        input_shape == ResolveInputShape(image, img_, shape_override)
        input_ndim == Len(input_shape) - 1
        transform == compatible_translate(image, translation)
    IN  IF Len(translation) > input_ndim THEN Raise(image, input_shape)
        ELSE Dispatch(img_, input_shape, MetaMatrix(transform, input_shape, "translate"),
                      lazy_evaluation)

translate(image, translation, shape_override, lazy_evaluation) ==
    LET img_ == convert_to_tensor(image)
        input_shape == ResolveInputShape(image, img_, shape_override)
        input_ndim == Len(input_shape) - 1
        transform == compatible_translate(image, translation)
    IN  IF Len(translation) # input_ndim THEN Raise(image, input_shape)
        ELSE Dispatch(img_, input_shape, MetaMatrix(transform, input_shape, "translate"),
                      lazy_evaluation)

\* ------------------------------------------------------------------------
\* Inputs explored: the images a caller constructs and, per builder, the
\* argument lists it is called with (ov: whether shape_override is given)
\* ------------------------------------------------------------------------

InitShapes ==
    {<<1, 10, 10>>, <<2, 10, 40>>, <<1, 6>>, <<1, 2, 3, 4>>, <<1, 2, 2, 2, 2>>}
OverrideShapes == {<<3, 10, 20>>, <<3, 7>>, <<3, 4, 4, 6>>, <<3, 2, 2, 2, 3>>}
LazyFlags == {"True", "False", "None"}

IdentityArgs == {[ov |-> FALSE], [ov |-> TRUE]}
SpacingArgs ==
    {[pixdim |-> <<2, 1>>, src_pixdim |-> ROne, diagonal |-> FALSE, ov |-> FALSE],
     [pixdim |-> ROne, src_pixdim |-> <<2, 1>>, diagonal |-> FALSE, ov |-> TRUE],
     [pixdim |-> <<2, 1>>, src_pixdim |-> ROne, diagonal |-> TRUE, ov |-> FALSE]}
FlipArgs ==
    {[is_none |-> TRUE, axes |-> <<>>, ov |-> FALSE],
     [is_none |-> FALSE, axes |-> <<1>>, ov |-> FALSE],
     [is_none |-> FALSE, axes |-> <<0>>, ov |-> TRUE]}
ResizeArgs ==
    {[is_int |-> FALSE, val |-> <<5, 40>>, size_mode |-> "all", ov |-> FALSE],
     [is_int |-> FALSE, val |-> <<5, 40>>, size_mode |-> "all", ov |-> TRUE],
     [is_int |-> FALSE, val |-> <<0, 8>>, size_mode |-> "all", ov |-> FALSE],
     [is_int |-> FALSE, val |-> <<3, 3, 3>>, size_mode |-> "all", ov |-> FALSE],
     [is_int |-> TRUE, val |-> <<20>>, size_mode |-> "all", ov |-> FALSE],
     [is_int |-> TRUE, val |-> <<20>>, size_mode |-> "longest", ov |-> FALSE],
     [is_int |-> TRUE, val |-> <<7>>, size_mode |-> "longest", ov |-> TRUE],
     [is_int |-> FALSE, val |-> <<5, 40>>, size_mode |-> "longest", ov |-> FALSE]}
RotateArgs ==
    {[angle |-> 45, keep_size |-> TRUE, align_corners |-> FALSE, ov |-> FALSE],
     [angle |-> 45, keep_size |-> FALSE, align_corners |-> FALSE, ov |-> FALSE],
     [angle |-> 90, keep_size |-> TRUE, align_corners |-> TRUE, ov |-> FALSE],
     [angle |-> 90, keep_size |-> FALSE, align_corners |-> TRUE, ov |-> FALSE],
     [angle |-> 45, keep_size |-> TRUE, align_corners |-> FALSE, ov |-> TRUE]}
ZoomArgs ==
    {[factor |-> <<2, 1>>, keep_size |-> TRUE, align_corners |-> FALSE, ov |-> FALSE],
     [factor |-> <<2, 1>>, keep_size |-> FALSE, align_corners |-> FALSE, ov |-> FALSE],
     [factor |-> <<2, 3>>, keep_size |-> TRUE, align_corners |-> FALSE, ov |-> TRUE],
     [factor |-> <<2, 1>>, keep_size |-> TRUE, align_corners |-> TRUE, ov |-> FALSE],
     [factor |-> <<2, 3>>, keep_size |-> FALSE, align_corners |-> TRUE, ov |-> FALSE]}
Rotate90Args ==
    {[k |-> 1, spatial_axes |-> <<0, 1>>, ov |-> FALSE],
     [k |-> 2, spatial_axes |-> <<1, 0>>, ov |-> TRUE],
     [k |-> 1, spatial_axes |-> <<0>>, ov |-> FALSE]}
TranslateArgs ==
    {[translation |-> <<3>>, ov |-> FALSE], [translation |-> <<1, 2>>, ov |-> FALSE],
     [translation |-> <<1, 2>>, ov |-> TRUE], [translation |-> <<1, 2, 3>>, ov |-> FALSE],
     [translation |-> <<1, 1, 1, 1>>, ov |-> FALSE]}

\* shape_override: None, or the shape of the image's dimensionality
Override(image, ov) ==
    IF ov THEN CHOOSE s \in OverrideShapes : Len(s) = Len(image.shape) ELSE NoShape

\* axes that exist in the image
ValidAxes(image, axes) == \A i \in 1..Len(axes) : axes[i] < NDim(image)

\* ------------------------------------------------------------------------
\* Init and the actions: one per builder
\* ------------------------------------------------------------------------

NoCall ==
    [op |-> "init", apply_now |-> FALSE, raised |-> FALSE, shape_override |-> NoShape,
     input_shape |-> NoShape,
     pre |-> [tracked |-> FALSE, shape |-> <<>>, pending |-> <<>>],
     record |-> NoOp, args |-> NoArgs]

Init ==
    /\ img \in [tracked : BOOLEAN, shape : InitShapes, pending : {<<>>}]
    /\ ret = [kind |-> "none", same |-> FALSE, leftover |-> NoOp]
    /\ applied = NoApply
    /\ call = NoCall
    /\ built = <<>>

\* A call is explored on a handle that was not resampled yet, whose log has
\* room, and whose chain of calls was not ended by an exception.
CanCall == ~applied.done /\ ~call.raised /\ Len(img.pending) < MaxOps

Step(name, lazy_evaluation, shape_override, args, r) ==
    /\ img' = r.img
    /\ ret' = r.ret
    /\ applied' = r.applied
    /\ call' = [op |-> name, apply_now |-> (lazy_evaluation = "False"),
                raised |-> r.raised, shape_override |-> shape_override,
                input_shape |-> r.input_shape, pre |-> img, record |-> r.op,
                args |-> args]
    /\ built' = IF r.raised THEN built
                ELSE IF img.tracked THEN Append(built, r.op)
                ELSE <<r.op>>

Identity ==
    /\ CanCall
    /\ \E a \in IdentityArgs, lz \in LazyFlags :
          Step("identity", lz, Override(img, a.ov), NoArgs,
               identity(img, Override(img, a.ov), lz))

Spacing ==
    /\ CanCall
    /\ \E a \in SpacingArgs, lz \in LazyFlags :
          Step("spacing", lz, Override(img, a.ov), NoArgs,
               spacing(img, a.pixdim, a.src_pixdim, a.diagonal, Override(img, a.ov), lz))

Flip ==
    /\ CanCall
    /\ \E a \in {x \in FlipArgs : ValidAxes(img, x.axes)}, lz \in LazyFlags :
          Step("flip", lz, Override(img, a.ov),
               [NoArgs EXCEPT !.spatial_axis = [is_none |-> a.is_none, axes |-> a.axes]],
               flip(img, [is_none |-> a.is_none, axes |-> a.axes],
                    Override(img, a.ov), lz))

\* a requested size has no more entries than the image has spatial dimensions
Resize ==
    /\ CanCall
    /\ \E a \in {x \in ResizeArgs : Len(x.val) <= NDim(img)}, lz \in LazyFlags :
          Step("resize", lz, Override(img, a.ov),
               [NoArgs EXCEPT !.size_mode = a.size_mode, !.is_int = a.is_int,
                              !.spatial_size = a.val],
               resize(img, [is_int |-> a.is_int, val |-> a.val], a.size_mode,
                      Override(img, a.ov), lz))

\* 3d rotations are explored at right angles only
Rotate ==
    /\ CanCall
    /\ \E a \in RotateArgs, lz \in LazyFlags :
          LET angle == IF NDim(img) = 3 THEN 90 ELSE a.angle
          IN  Step("rotate", lz, Override(img, a.ov),
                   [NoArgs EXCEPT !.angle = angle, !.keep_size = a.keep_size,
                                  !.align_corners = a.align_corners],
                   rotate(img, angle, a.keep_size, a.align_corners,
                          Override(img, a.ov), lz))

Zoom ==
    /\ CanCall
    /\ \E a \in ZoomArgs, lz \in LazyFlags :
          Step("zoom", lz, Override(img, a.ov),
               [NoArgs EXCEPT !.factor = a.factor, !.keep_size = a.keep_size,
                              !.align_corners = a.align_corners],
               zoom(img, a.factor, a.align_corners, a.keep_size,
                    Override(img, a.ov), lz))

Rotate90 ==
    /\ CanCall
    /\ \E a \in {x \in Rotate90Args : ValidAxes(img, x.spatial_axes)}, lz \in LazyFlags :
          Step("rotate90", lz, Override(img, a.ov), NoArgs,
               rotate90(img, a.k, a.spatial_axes, Override(img, a.ov), lz))

Translate ==
    /\ CanCall
    /\ \E a \in TranslateArgs, lz \in LazyFlags :
          Step("translate", lz, Override(img, a.ov),
               [NoArgs EXCEPT !.translation = a.translation],
               translate(img, a.translation, Override(img, a.ov), lz))

Next ==
    \/ Identity
    \/ Spacing
    \/ Flip
    \/ Resize
    \/ Rotate
    \/ Zoom
    \/ Rotate90
    \/ Translate

Spec == Init /\ [][Next]_vars

\* ------------------------------------------------------------------------
\* The extent / shape calculator on its own: a shape is drawn, and either
\* its extents are turned back into a shape or it is transformed by the
\* identity matrix of its dimensionality.  `call` holds the function applied,
\* its argument (input_shape) and its result (record.shape_override).
\* ------------------------------------------------------------------------

MaxChannels == 2
MaxExtent == 3
MaxDims == 4

\* the shapes <<C, d1, ..., dK>> with positive extents
Shapes ==
    UNION {{s \in [1..(K + 1) -> 1..MaxExtent] : s[1] <= MaxChannels} : K \in 1..MaxDims}

InitShape ==
    /\ img \in [tracked : {FALSE}, shape : Shapes, pending : {<<>>}]
    /\ ret = [kind |-> "none", same |-> FALSE, leftover |-> NoOp]
    /\ applied = NoApply
    /\ call = NoCall
    /\ built = <<>>

ShapeFromExtents ==
    /\ call.op = "init"
    /\ call' = [NoCall EXCEPT
                  !.op = "shape_from_extents", !.input_shape = img.shape, !.pre = img,
                  !.record = MetaMatrix(<<>>,
                                 shape_from_extents(img.shape, extents_from_shape(img.shape)),
                                 "shape_from_extents")]
    /\ UNCHANGED <<img, ret, applied, built>>

TransformShape ==
    /\ call.op = "init"
    /\ LET matrix == compatible_identity(img)
           output_shape == transform_shape(img.shape, matrix)
       IN  call' = [NoCall EXCEPT
                      !.op = "transform_shape", !.input_shape = img.shape, !.pre = img,
                      !.raised = (output_shape = <<>>),
                      !.record = MetaMatrix(matrix, output_shape, "transform_shape")]
    /\ UNCHANGED <<img, ret, applied, built>>

NextShape ==
    \/ ShapeFromExtents
    \/ TransformShape

SpecShape == InitShape /\ [][NextShape]_vars

\* ------------------------------------------------------------------------
\* Properties
\* ------------------------------------------------------------------------

Called == call.op # "init"
Succeeded == Called /\ ~call.raised

\* the shape a builder is to work on, by the priority of the contract
PriorityShape(image, shape_override) ==
    IF shape_override # NoShape THEN shape_override
    ELSE IF image.tracked /\ image.pending # <<>>
         THEN image.pending[Len(image.pending)].shape_override
    ELSE image.shape

\* C1: a deferred call on a tracked image appends exactly its record to the end
\* of the log, keeps the earlier records in place, resamples nothing and
\* returns the same handle; the log is the records of the calls in call order.
C1_DeferredAppends ==
    (Succeeded /\ call.pre.tracked /\ ~call.apply_now) =>
        /\ img.pending = Append(call.pre.pending, call.record)
        /\ img.shape = call.pre.shape
        /\ img.tracked
        /\ ~applied.done
        /\ ret = [kind |-> "tensor", same |-> TRUE, leftover |-> NoOp]
        /\ img.pending = built

C1_Witness ==
    /\ Succeeded /\ call.pre.tracked /\ ~call.apply_now
    /\ Len(img.pending) = 2
    /\ img.pending[1].op = "rotate" /\ img.pending[2].op = "flip"

\* C2: deferred calls followed by one call that applies at once resample with
\* the product, in call order, of the transforms of all the calls, the last
\* one included, and leave the log empty.
C2_EagerAppliesAllInOrder ==
    (Succeeded /\ call.pre.tracked /\ call.apply_now) =>
        /\ applied.done
        /\ applied.count = Len(built)
        /\ built[Len(built)] = call.record
        /\ applied.matrix = Compose(built, Len(built))
        /\ img.pending = <<>>

C2_Witness ==
    /\ Succeeded /\ call.pre.tracked /\ call.apply_now
    /\ Len(built) = 2
    /\ built[1].op = "rotate" /\ built[2].op = "translate"
    /\ applied.matrix # MatMul(built[2].matrix, built[1].matrix)

\* C3: on a plain image a call that applies at once resamples with its own
\* record alone and returns (result, None); a deferred call returns the image
\* as it was together with the record; no log comes to exist.
C3_PlainImage ==
    (Succeeded /\ ~call.pre.tracked) =>
        /\ img.pending = <<>> /\ ~img.tracked
        /\ ret.kind = "tuple"
        /\ IF call.apply_now
           THEN /\ applied.done /\ applied.count = 1
                /\ applied.matrix = call.record.matrix
                /\ ret.leftover = NoOp
           ELSE /\ ~applied.done
                /\ img = call.pre
                /\ ret.same
                /\ ret.leftover = call.record

C3_Witness ==
    /\ Succeeded /\ ~call.pre.tracked /\ ~call.apply_now
    /\ call.op = "zoom" /\ ret.leftover.op = "zoom"

\* C4: a call that raises builds no record and leaves the image and its log
\* as they were.
C4_RaiseLeavesLog ==
    (Called /\ call.raised) =>
        /\ img = call.pre
        /\ call.record = NoOp
        /\ ~applied.done
        /\ ret.leftover = NoOp

C4_Witness ==
    /\ Called /\ call.raised /\ call.op = "rotate"
    /\ Len(img.pending) = 1

\* C5: every builder works on shape_override when it is given, else on the
\* shape predicted by the pending operations of a tracked image that has
\* some, else on the shape of the image.
C5_InputShapePriority ==
    (Called /\ (call.op = "rotate90" => ~call.raised)) =>
        call.input_shape = PriorityShape(call.pre, call.shape_override)

C5_Witness ==
    /\ Succeeded /\ call.op = "flip"
    /\ call.shape_override = NoShape
    /\ call.pre.pending # <<>>
    /\ call.input_shape # call.pre.shape

\* C6: rotate on 2 or 3 spatial dimensions: with keep_size the record's
\* shape_override is the input shape, without it the shape of the rotated
\* bounding box.
C6_RotateShape ==
    (Succeeded /\ call.op = "rotate") =>
        call.record.shape_override =
            IF call.args.keep_size THEN call.input_shape
            ELSE transform_shape(call.input_shape,
                     compatible_rotate(call.pre,
                         ensure_tuple_rep(call.args.angle,
                             IF Len(call.input_shape) = 3 THEN 1 ELSE 3)))

\* C7: zoom without align_corners: with keep_size the record's shape_override
\* is the input shape, without it the shape scaled by the reciprocal factors.
C7_ZoomShape ==
    (Succeeded /\ call.op = "zoom" /\ ~call.args.align_corners) =>
        call.record.shape_override =
            IF call.args.keep_size THEN call.input_shape
            ELSE transform_shape(call.input_shape,
                     Diag(Tab(Len(call.input_shape) - 1, [i \in 1..(Len(call.input_shape) - 1) |-> RDiv(ROne, call.args.factor)])))

\* C8: identity, translate and rotate90 build a record whose shape_override
\* is the input shape they resolved, so without an override the predicted
\* shape of the image stays what it was.
C8_ShapePreserving ==
    (Succeeded /\ call.op \in {"identity", "translate", "rotate90"}) =>
        /\ call.record.shape_override = PriorityShape(call.pre, call.shape_override)
        /\ (call.shape_override = NoShape /\ call.pre.tracked /\ ~call.apply_now) =>
              PriorityShape(img, NoShape) = PriorityShape(call.pre, NoShape)

C8_Witness ==
    /\ Succeeded /\ call.op = "rotate90" /\ call.pre.tracked /\ ~call.apply_now
    /\ call.shape_override = NoShape
    /\ Len(img.pending) = 2
    /\ call.input_shape[2] # call.input_shape[3]
    /\ call.record.shape_override = call.input_shape

C11_RejectsMisfit ==
    Called =>
        LET K == Len(PriorityShape(call.pre, call.shape_override)) - 1
        IN  /\ (call.op = "translate" /\ Len(call.args.translation) # K) => call.raised
            /\ (call.op = "rotate" /\ K \notin {2, 3}) => call.raised
            /\ (/\ call.op = "resize" /\ call.args.size_mode = "all"
                /\ Len(call.args.spatial_size) < K) => call.raised

C11_Witness ==
    /\ Called /\ call.raised /\ call.op = "translate"
    /\ Len(call.args.translation) = 2
    /\ Len(call.input_shape) = 4
    /\ img = call.pre

\* C12: the shape made from the extents of a shape S is S, and the identity
\* matrix transforms every shape S into S.
C12_RoundTrip ==
    /\ call.op = "shape_from_extents" => call.record.shape_override = call.input_shape
    /\ call.op = "transform_shape" =>
          ~call.raised /\ call.record.shape_override = call.input_shape

\* C12, as the code has it: the shape made from the extents of a shape S is
\* S; the identity matrix transforms S into S, channel count included, when S
\* has 2 or 3 spatial dimensions, and transform_shape raises for any other
\* dimensionality.
C12_RoundTrip2d3d ==
    /\ call.op = "shape_from_extents" => call.record.shape_override = call.input_shape
    /\ call.op = "transform_shape" =>
          IF Len(call.input_shape) - 1 \in {2, 3}
          THEN ~call.raised /\ call.record.shape_override = call.input_shape
          ELSE call.raised

C12_Witness ==
    /\ call.op = "transform_shape" /\ ~call.raised
    /\ call.input_shape = <<2, 1, 2, 3>>
    /\ call.record.shape_override = <<2, 1, 2, 3>>

\* C13: flip on any set of spatial axes (None: all of them) builds a record
\* whose shape_override, the extent per axis of the flipped corners, is the
\* input shape; its transform composed with itself is the identity, so two
\* flips on the same axis set (the same transform) compose to the identity.
C13_FlipInvolution ==
    (Succeeded /\ call.op = "flip") =>
        /\ call.record.shape_override = call.input_shape
        /\ MatMul(call.record.matrix, call.record.matrix) = compatible_identity(call.pre)
        /\ (/\ call.pre.tracked /\ Len(built) = 2
            /\ built[1].op = "flip" /\ built[1].matrix = call.record.matrix) =>
              /\ Compose(built, 2) = compatible_identity(call.pre)
              /\ call.apply_now => applied.matrix = compatible_identity(call.pre)

C13_Witness ==
    /\ Succeeded /\ call.op = "flip" /\ call.pre.tracked /\ call.apply_now
    /\ call.args.spatial_axis.is_none
    /\ Len(built) = 2 /\ built[1].op = "flip" /\ built[1].matrix = call.record.matrix
    /\ call.input_shape = <<2, 10, 40>>
    /\ call.record.shape_override = <<2, 10, 40>>
    /\ call.record.matrix # compatible_identity(call.pre)
    /\ applied.matrix = compatible_identity(call.pre)

\* C14: for zoom, align_corners changes the transform only: for the same
\* image, factor, keep_size and shape_override the record's shape_override
\* with align_corners is the one without it.
C14_AlignCornersKeepsShape ==
    (Succeeded /\ call.op = "zoom" /\ call.args.align_corners) =>
        call.record.shape_override =
            zoom(call.pre, call.args.factor, FALSE, call.args.keep_size,
                 call.shape_override, "True").op.shape_override

====
